---- MODULE Spec2Model ----
(***************************************************************************)
(* Model of the date-rotating log writer (DateRotator) of xsonik/glog.    *)
(*                                                                         *)
(* Time is counted in ticks of six hours, so the 24-hour period of the    *)
(* writer is 4 ticks.  A file name is a sequence of tokens: the time      *)
(* pattern is a day-granular layout (such as "2006-01-02"), so a          *)
(* formatted instant is one "day" token that carries the day number of    *)
(* the instant in LOCAL time, and time.Parse reads such a token back as   *)
(* midnight of that day in UTC.                                            *)
(*                                                                         *)
(* Three specifications share the operators that model the code:          *)
(*   Spec       one caller; Write and Close are whole calls (they run     *)
(*              under tw.mutex); launched sweeps are not scheduled.        *)
(*   ConcSpec   several goroutines; Write and Close step by step.          *)
(*   SweepSpec  the rotating writes and the steps of the sweeps.           *)
(* The wall clock only moves forward in all three.  Three more cover what  *)
(* these leave out:                                                        *)
(*   DetachSpec the concurrent callers together with the sweeps.           *)
(*   SkewSpec   Spec under a clock that also steps backwards.              *)
(*   BucketSpec the bucket computation alone, from the epoch on.           *)
(***************************************************************************)
EXTENDS Integers, Sequences, FiniteSets, TLC

VARIABLES
    now,            \* the wall clock, time.Now().UnixNano(), in ticks
    timeDiffToUTC,  \* tw.timeDiffToUTC
    maxAge,         \* tw.maxAge
    lastTime,       \* tw.lastTime
    filename,       \* tw.filename
    outFile,        \* tw.outFile: 0 is nil, h > 0 is the handle handles[h]
    handles,        \* every *os.File ever opened: [name, open]
    dir,            \* the regular files of tw.logPath: name -> contents
    subdirs,        \* the names of the subdirectories of tw.logPath
    sweeps,         \* the cleanRunOnce goroutines launched so far
    last,           \* what the last Write or Close call did and returned
    mutex,          \* tw.mutex: 0 is free, p > 0 is held by caller p
    pc,             \* position of each concurrent caller
    loc             \* locals of each concurrent caller

vars == <<now, timeDiffToUTC, maxAge, lastTime, filename, outFile, handles,
          dir, subdirs, sweeps, last, mutex, pc, loc>>

writerVars == <<lastTime, filename, outFile>>
concVars == <<mutex, pc, loc>>

(***************************************************************************)
(* Program constants and bounds                                            *)
(***************************************************************************)
period == 4                 \* (24 * time.Hour).Nanoseconds(), in ticks

StartDay == 8               \* the day of the epoch at which the clock starts
MaxTicks == 5               \* the clock advances at most this far
MaxFileLen == 2             \* a file of the model holds at most this many bytes
NumWriters == 2             \* concurrent callers of Write
BufLen == 2                 \* bytes in the buffer of a concurrent Write
MaxNow == 9                 \* latest instant of the bucket computation alone

Offsets == {-2, 0, 1}       \* captured zone offsets: -12h, 0, +6h
MaxAges == {-1, 0, 1, 2}    \* retention horizons given to NewDateRotator

StartTime == StartDay * period
MaxTime == StartTime + MaxTicks

(***************************************************************************)
(* Names, formatting and parsing                                           *)
(***************************************************************************)
DayTok(d) == [k |-> "day", v |-> d]
StrTok(s) == [k |-> s, v |-> 0]

ext == <<StrTok(".log")>>

\* Go's % truncates towards zero.
GoMod(a, b) == IF a >= 0 THEN a % b ELSE -((-a) % b)

\* Mutant of BucketStart: the zone offset is left out of the remainder.
BucketStartNoOffset(t, off) == t - GoMod(t, period)

\* current := nowUnixNano - ((nowUnixNano + tw.timeDiffToUTC) % tw.period)
BucketStart(t, off) == t - GoMod(t + off, period)

\* time.Unix(0, t).Format(layout): the day of t on the local calendar.
Format(t, off) == <<DayTok((t + off) \div period)>>

\* time.Parse(layout, ts): the day read as midnight UTC; an error for anything
\* that is not exactly one formatted day.
Parse(ts) ==
    IF Len(ts) = 1 /\ ts[1].k = "day"
    THEN [ok |-> TRUE, t |-> ts[1].v * period]
    ELSE [ok |-> FALSE, t |-> 0]

HasSuffix(s, suffix) ==
    /\ Len(s) >= Len(suffix)
    /\ SubSeq(s, Len(s) - Len(suffix) + 1, Len(s)) = suffix

timeFromName(name) ==
    IF ~HasSuffix(name, ext)
    THEN [ok |-> FALSE, t |-> 0]
    ELSE Parse(SubSeq(name, 1, Len(name) - Len(ext)))

LogName(t, off) == Format(t, off) \o ext

(***************************************************************************)
(* The operating system's files                                            *)
(***************************************************************************)
NilErr == "nil"

\* (*os.File).Close: a second Close of the same file fails, and a Close that
\* reports an error has released the descriptor all the same.
FileClose(hs, h, fails) ==
    IF ~hs[h].open
    THEN [err |-> "file already closed", handles |-> hs]
    ELSE [err |-> IF fails THEN "close failed" ELSE NilErr,
          handles |-> [hs EXCEPT ![h].open = FALSE]]

\* os.OpenFile(name, O_CREATE|O_APPEND|O_WRONLY, 0644)
CanOpen(name, fails) == ~fails /\ name \notin subdirs

Created(d, name) ==
    [n \in DOMAIN d \cup {name} |-> IF n \in DOMAIN d THEN d[n] ELSE <<>>]

Removed(d, name) == [n \in DOMAIN d \ {name} |-> d[n]]

\* (*os.File).Write on an O_APPEND descriptor; bytes written to a file that
\* was unlinked meanwhile are not visible in the directory.
Appended(d, name, bytes) ==
    IF name \in DOMAIN d THEN [d EXCEPT ![name] = @ \o bytes] ELSE d

(***************************************************************************)
(* DateRotator.getFileHandler, DateRotator.Write, DateRotator.Close        *)
(***************************************************************************)
ClosedWriter == "target io.Writer is closed"
OpenError == "failed to open file"

\* Mutant of SameBucket: the bucket is compared for equality.
SameBucketExact(current) == current = lastTime

\* if (current - tw.lastTime) < tw.period { return tw.outFile, nil }
SameBucket(current) == current - lastTime < period

\* if tw.filename == logfile { return tw.outFile, nil }
SameName(logfile) == filename = logfile

\* A goroutine running cleanRunOnce, before its first step.
NoError == [kind |-> NilErr, name |-> <<>>]
NewSweep == [pc |-> "start", files |-> <<>>, remove |-> <<>>, err |-> NoError]

\* The writer as getFileHandler leaves it on a return that records nothing:
\* the handle returned, the error, the handle table and the path taken.
Unrotated(fh, err, hs, path) ==
    [fh |-> fh, err |-> err, path |-> path,
     outFile |-> outFile, filename |-> filename, lastTime |-> lastTime,
     handles |-> hs, dir |-> dir, launch |-> FALSE]

\* Mutant of Reused: the sweep is launched before the bucket is compared.
ReusedLaunches(path) ==
    [Unrotated(outFile, NilErr, handles, path) EXCEPT !.launch = TRUE]

\* return tw.outFile, nil
Reused(path) == Unrotated(outFile, NilErr, handles, path)

\* err := tw.outFile.Close(); if err != nil { return nil, err }
CloseFailed(err, hs) == Unrotated(0, err, hs, "closeerr")

\* Mutant of OpenFailed: name and bucket start are recorded before the open.
OpenFailedRecords(hs, logfile, current) ==
    [Unrotated(0, OpenError, hs, "openerr") EXCEPT !.filename = logfile,
                                                   !.lastTime = current]

\* Mutant of OpenFailed: the sweep is launched although no file was opened.
OpenFailedLaunches(hs, logfile, current) ==
    [Unrotated(0, OpenError, hs, "openerr") EXCEPT !.launch = TRUE]

\* fh, err := os.OpenFile(...); if err != nil { return nil, errors.New(...) }
OpenFailed(hs, logfile, current) == Unrotated(0, OpenError, hs, "openerr")

\* Mutant of Rotated: the bucket start is not recorded.
RotatedKeepsTime(hs, logfile, current) ==
    [fh |-> Len(hs) + 1, err |-> NilErr, path |-> "rotated",
     outFile |-> Len(hs) + 1, filename |-> logfile, lastTime |-> lastTime,
     handles |-> Append(hs, [name |-> logfile, open |-> TRUE]),
     dir |-> Created(dir, logfile), launch |-> TRUE]

\* Mutant of Rotated: the name of the new file is not recorded.
RotatedKeepsName(hs, logfile, current) ==
    [fh |-> Len(hs) + 1, err |-> NilErr, path |-> "rotated",
     outFile |-> Len(hs) + 1, filename |-> filename, lastTime |-> current,
     handles |-> Append(hs, [name |-> logfile, open |-> TRUE]),
     dir |-> Created(dir, logfile), launch |-> TRUE]

\* tw.outFile = fh; tw.filename = logfile; tw.lastTime = current; go cleanRunOnce
Rotated(hs, logfile, current) ==
    [fh |-> Len(hs) + 1, err |-> NilErr, path |-> "rotated",
     outFile |-> Len(hs) + 1, filename |-> logfile, lastTime |-> current,
     handles |-> Append(hs, [name |-> logfile, open |-> TRUE]),
     dir |-> Created(dir, logfile), launch |-> TRUE]

\* What getFileHandler returns and the state it leaves, given whether the
\* operating system lets the Close and the OpenFile it may issue succeed.
getFileHandler(closeFails, openFails) ==
    LET current == BucketStart(now, timeDiffToUTC)
        logfile == LogName(current, timeDiffToUTC)
    IN  IF SameBucket(current) THEN Reused("hot")
        ELSE IF SameName(logfile) THEN Reused("same")
        ELSE LET closed == IF outFile # 0
                           THEN FileClose(handles, outFile, closeFails)
                           ELSE [err |-> NilErr, handles |-> handles]
             IN  IF closed.err # NilErr
                 THEN CloseFailed(closed.err, closed.handles)
                 ELSE IF ~CanOpen(logfile, openFails)
                 THEN OpenFailed(closed.handles, logfile, current)
                 ELSE Rotated(closed.handles, logfile, current)

\* fh.Write(p) on the handle h of the handle table hs.
FileWrite(hs, d, h, p, fails) ==
    IF ~hs[h].open
    THEN [n |-> 0, err |-> "file already closed", dir |-> d]
    ELSE IF fails
    THEN [n |-> 0, err |-> "write failed", dir |-> d]
    ELSE [n |-> Len(p), err |-> NilErr, dir |-> Appended(d, hs[h].name, p)]

\* The whole of Write(p): the state getFileHandler leaves, then the append.
WriteResult(p, closeFails, openFails, writeFails) ==
    LET g == getFileHandler(closeFails, openFails)
    IN  IF g.err # NilErr
        THEN [g EXCEPT !.fh = 0] @@ [n |-> 0]
        ELSE IF g.fh = 0
        THEN [g EXCEPT !.err = ClosedWriter] @@ [n |-> 0]
        ELSE LET w == FileWrite(g.handles, g.dir, g.fh, p, writeFails)
             IN  [g EXCEPT !.err = w.err, !.dir = w.dir] @@ [n |-> w.n]

\* Mutant of CloseResult: the handle is closed but not cleared.
CloseKeepsHandle(closeFails) ==
    IF outFile = 0
    THEN [err |-> NilErr, outFile |-> 0, handles |-> handles, path |-> "nil"]
    ELSE LET c == FileClose(handles, outFile, closeFails)
         IN  [err |-> c.err, outFile |-> outFile, handles |-> c.handles,
              path |-> IF c.err # NilErr THEN "closeerr" ELSE "closed"]

\* Mutant of CloseResult: the handle is cleared but the file is not closed.
CloseDropsHandle(closeFails) ==
    IF outFile = 0
    THEN [err |-> NilErr, outFile |-> 0, handles |-> handles, path |-> "nil"]
    ELSE [err |-> NilErr, outFile |-> 0, handles |-> handles, path |-> "closed"]

\* The whole of Close(): the error it returns and the state it leaves.
CloseResult(closeFails) ==
    IF outFile = 0
    THEN [err |-> NilErr, outFile |-> 0, handles |-> handles, path |-> "nil"]
    ELSE LET c == FileClose(handles, outFile, closeFails)
         IN  IF c.err # NilErr
             THEN [err |-> c.err, outFile |-> outFile, handles |-> c.handles,
                   path |-> "closeerr"]
             ELSE [err |-> NilErr, outFile |-> 0, handles |-> c.handles,
                   path |-> "closed"]

NoOp == [op |-> "none", n |-> 0, err |-> NilErr, fh |-> 0, path |-> "none"]

\* The buffer a sequential caller writes.
Buf(w, len) == [i \in 1..len |-> [w |-> w, i |-> i]]

Write(closeFails, openFails, writeFails) ==
    LET r == WriteResult(Buf(0, 1), closeFails, openFails, writeFails)
    IN  /\ \A n \in DOMAIN r.dir : Len(r.dir[n]) <= MaxFileLen
        /\ lastTime' = r.lastTime
        /\ filename' = r.filename
        /\ outFile' = r.outFile
        /\ handles' = r.handles
        /\ dir' = r.dir
        /\ sweeps' = IF r.launch THEN Append(sweeps, NewSweep) ELSE sweeps
        /\ last' = [op |-> "Write", n |-> r.n, err |-> r.err, fh |-> r.fh,
                    path |-> r.path]
        /\ UNCHANGED <<now, timeDiffToUTC, maxAge, subdirs, concVars>>

Close(closeFails) ==
    LET r == CloseResult(closeFails)
    IN  /\ outFile' = r.outFile
        /\ handles' = r.handles
        /\ last' = [op |-> "Close", n |-> 0, err |-> r.err, fh |-> 0,
                    path |-> r.path]
        /\ UNCHANGED <<now, timeDiffToUTC, maxAge, lastTime, filename, dir,
                       subdirs, sweeps, concVars>>

\* The wall clock advances.
Tick ==
    /\ now < MaxTime
    /\ now' = now + 1
    /\ UNCHANGED <<timeDiffToUTC, maxAge, writerVars, handles, dir, subdirs,
                   sweeps, last, concVars>>

(***************************************************************************)
(* DateRotator.cleanRunOnce, run by the goroutine each rotation launches   *)
(***************************************************************************)
IsDir(name) == name \in subdirs

\* os.ReadDir(tw.logPath)
DirEntries == DOMAIN dir \cup subdirs

\* sort.Sort(byFormatTime(logFiles)): most recent first.
RECURSIVE SortDesc(_)
SortDesc(names) ==
    IF names = {} THEN <<>>
    ELSE LET m == CHOOSE n \in names :
                    \A o \in names : timeFromName(o).t <= timeFromName(n).t
         IN  <<m>> \o SortDesc(names \ {m})

\* Mutant of IsLogFile: directories are not skipped.
IsLogFileOrDir(name) == timeFromName(name).ok

\* The entries oldLogFiles keeps: no directory, and a name that parses.
IsLogFile(name) == ~IsDir(name) /\ timeFromName(name).ok

oldLogFiles == SortDesc({n \in DirEntries : IsLogFile(n)})

\* cutoff := time.Now().Local().Add(-diff), diff = 24h * tw.maxAge
Cutoff == now - period * maxAge

\* f.timestamp.Before(cutoff)
Expired(name, cutoff) == timeFromName(name).t < cutoff

\* Mutant of ToRemove: a negative horizon is taken for an enabled one.
ToRemoveUnlessZero(files, cutoff) ==
    IF maxAge # 0
    THEN SelectSeq(files, LAMBDA f : Expired(f, cutoff))
    ELSE <<>>

\* The files cleanRunOnce selects for removal, in the order of the listing.
ToRemove(files, cutoff) ==
    IF maxAge > 0
    THEN SelectSeq(files, LAMBDA f : Expired(f, cutoff))
    ELSE <<>>

\* Mutant of KeptError: every failing removal overwrites the error.
KeptLastError(err, errRemove) ==
    IF errRemove.kind # NilErr THEN errRemove ELSE err

\* if err == nil && errRemove != nil { err = errRemove }
KeptError(err, errRemove) ==
    IF err.kind = NilErr /\ errRemove.kind # NilErr THEN errRemove ELSE err

SetSweep(i, s) == sweeps' = [sweeps EXCEPT ![i] = s]

\* cleanRunOnce up to the listing of the directory.
SweepList(i, readDirFails) ==
    /\ i \in DOMAIN sweeps
    /\ sweeps[i].pc = "start"
    /\ IF maxAge = 0
       THEN SetSweep(i, [sweeps[i] EXCEPT !.pc = "done"])
       ELSE IF readDirFails
       THEN SetSweep(i, [sweeps[i] EXCEPT !.pc = "done",
                             !.err = [kind |-> "readdir", name |-> <<>>]])
       ELSE SetSweep(i, [sweeps[i] EXCEPT !.pc = "listed",
                                           !.files = oldLogFiles])
    /\ UNCHANGED <<now, timeDiffToUTC, maxAge, writerVars, handles, dir,
                   subdirs, last, concVars>>

\* cleanRunOnce reads the clock and selects the files before the cutoff.
SweepSelect(i) ==
    /\ i \in DOMAIN sweeps
    /\ sweeps[i].pc = "listed"
    /\ LET rm == ToRemove(sweeps[i].files, Cutoff)
       IN  SetSweep(i, [sweeps[i] EXCEPT
                            !.pc = IF rm = <<>> THEN "done" ELSE "removing",
                            !.remove = rm])
    /\ UNCHANGED <<now, timeDiffToUTC, maxAge, writerVars, handles, dir,
                   subdirs, last, concVars>>

\* One os.Remove of the removal loop; the return follows the last one.
SweepRemove(i, removeFails) ==
    /\ i \in DOMAIN sweeps
    /\ sweeps[i].pc = "removing"
    /\ LET f == Head(sweeps[i].remove)
           rest == Tail(sweeps[i].remove)
           gone == f \in DirEntries /\ ~removeFails
           errRemove == IF gone THEN NoError
                        ELSE [kind |-> "remove", name |-> f]
       IN  /\ dir' = IF gone THEN Removed(dir, f) ELSE dir
           /\ subdirs' = IF gone THEN subdirs \ {f} ELSE subdirs
           /\ SetSweep(i, [sweeps[i] EXCEPT
                  !.pc = IF rest = <<>> THEN "done" ELSE "removing",
                  !.remove = rest,
                  !.err = KeptError(@, errRemove)])
    /\ UNCHANGED <<now, timeDiffToUTC, maxAge, writerVars, handles, last,
                   concVars>>

(***************************************************************************)
(* The sequential specification: one caller, sweeps in the background      *)
(***************************************************************************)
OldLogDays == {StartDay - 1, StartDay - 2, StartDay - 7}

OtherFiles == { <<DayTok(StartDay - 7), StrTok(".txt")>>,
                <<StrTok("notes")>> \o ext,
                ext }

OldDir == <<DayTok(StartDay - 6)>> \o ext
NextDayDir == <<DayTok(StartDay + 1)>> \o ext

InitFiles == { <<DayTok(d)>> \o ext : d \in OldLogDays } \cup OtherFiles

NoLocals == [fh |-> 0, wasOpen |-> FALSE, sent |-> 0, n |-> 0, err |-> NilErr]

InitWith(ages, dirs, procs) ==
    /\ now = StartTime
    /\ timeDiffToUTC \in Offsets
    /\ maxAge \in ages
    /\ lastTime = 0
    /\ filename = <<>>
    /\ outFile = 0
    /\ handles = <<>>
    /\ dir = [n \in InitFiles |-> <<>>]
    /\ subdirs \in dirs
    /\ sweeps = <<>>
    /\ last = NoOp
    /\ mutex = 0
    /\ pc = [p \in procs |-> "idle"]
    /\ loc = [p \in procs |-> NoLocals]

\* The writer and its caller; the sweeps it launches are not scheduled.
Init == InitWith(MaxAges, {{OldDir}, {OldDir, NextDayDir}}, {})

Next ==
    \/ \E cf \in BOOLEAN, of \in BOOLEAN, wf \in BOOLEAN : Write(cf, of, wf)
    \/ \E cf \in BOOLEAN : Close(cf)
    \/ Tick

Spec == Init /\ [][Next]_vars

\* The sweeps, launched by the writes that rotate; the writes between two
\* rotations only append to the open file and are left out.
SweepInit == InitWith(MaxAges, {{OldDir}}, {})

RotatingWrite ==
    /\ ~SameBucket(BucketStart(now, timeDiffToUTC))
    /\ \E of \in BOOLEAN : Write(FALSE, of, FALSE)

SweepNext ==
    \/ RotatingWrite
    \/ Tick
    \/ \E i \in DOMAIN sweeps, f \in BOOLEAN : SweepList(i, f)
    \/ \E i \in DOMAIN sweeps : SweepSelect(i)
    \/ \E i \in DOMAIN sweeps, f \in BOOLEAN : SweepRemove(i, f)

SweepSpec == SweepInit /\ [][SweepNext]_vars

\* The wall clock is set back (an NTP correction, a change made by hand); last
\* notes it, so that a call made after the step is told from one before it.
ClockBack ==
    /\ \E t \in StartTime..(now - 1) : now' = t
    /\ last' = [NoOp EXCEPT !.op = "ClockBack"]
    /\ UNCHANGED <<timeDiffToUTC, maxAge, writerVars, handles, dir, subdirs,
                   sweeps, concVars>>

\* The writer and its caller under a clock that also steps backwards.
SkewInit == InitWith({0}, {{OldDir}}, {})

SkewNext ==
    \/ \E cf \in BOOLEAN, of \in BOOLEAN, wf \in BOOLEAN : Write(cf, of, wf)
    \/ \E cf \in BOOLEAN : Close(cf)
    \/ Tick
    \/ ClockBack

SkewSpec == SkewInit /\ [][SkewNext]_vars

\* The bucket computation of getFileHandler alone, at every instant from the
\* epoch on and every zone offset shorter than the period.
AllOffsets == (1 - period)..(period - 1)

BucketInit ==
    /\ now \in 0..MaxNow
    /\ timeDiffToUTC \in AllOffsets
    /\ maxAge = 0
    /\ lastTime = 0
    /\ filename = <<>>
    /\ outFile = 0
    /\ handles = <<>>
    /\ dir = [n \in InitFiles |-> <<>>]
    /\ subdirs = {}
    /\ sweeps = <<>>
    /\ last = NoOp
    /\ mutex = 0
    /\ pc = <<>>
    /\ loc = <<>>

\* current := nowUnixNano - ((nowUnixNano + tw.timeDiffToUTC) % tw.period)
BucketCurrent ==
    /\ last.op = "none"
    /\ last' = [NoOp EXCEPT !.op = "current",
                            !.n = BucketStart(now, timeDiffToUTC)]
    /\ UNCHANGED <<now, timeDiffToUTC, maxAge, writerVars, handles, dir,
                   subdirs, sweeps, concVars>>

\* The clock shows another instant when getFileHandler reads it next.
BucketClock ==
    /\ \E t \in 0..MaxNow : now' = t
    /\ last' = NoOp
    /\ UNCHANGED <<timeDiffToUTC, maxAge, writerVars, handles, dir, subdirs,
                   sweeps, concVars>>

BucketNext ==
    \/ BucketCurrent
    \/ BucketClock

BucketSpec == BucketInit /\ [][BucketNext]_vars

(***************************************************************************)
(* The concurrent specification: Write and Close step by step under        *)
(* tw.mutex, called by several goroutines                                  *)
(***************************************************************************)
Writers == 1..NumWriters
Closer == NumWriters + 1
Procs == Writers \cup {Closer}

\* Mutant of MutexFree: the lock is taken shared (RLock) and excludes nobody.
MutexShared == TRUE

\* tw.mutex.Lock() returns once no other caller holds the mutex.
MutexFree == mutex = 0

\* tw.mutex.Lock(), the first statement of Write and of Close
Lock(p) ==
    /\ pc[p] = "idle"
    /\ MutexFree
    /\ mutex' = p
    /\ pc' = [pc EXCEPT ![p] = "locked"]
    /\ UNCHANGED <<now, timeDiffToUTC, maxAge, writerVars, handles, dir,
                   subdirs, sweeps, last, loc>>

\* fh, err := tw.getFileHandler() and the two early returns of Write
WriteGet(p, closeFails, openFails) ==
    LET g == getFileHandler(closeFails, openFails)
        stop == g.err # NilErr \/ g.fh = 0
    IN  /\ p \in Writers
        /\ pc[p] = "locked"
        /\ lastTime' = g.lastTime
        /\ filename' = g.filename
        /\ outFile' = g.outFile
        /\ handles' = g.handles
        /\ dir' = g.dir
        /\ sweeps' = IF g.launch THEN Append(sweeps, NewSweep) ELSE sweeps
        /\ loc' = [loc EXCEPT ![p] =
              [fh |-> IF stop THEN 0 ELSE g.fh,
               wasOpen |-> IF stop THEN FALSE ELSE g.handles[g.fh].open,
               sent |-> 0, n |-> 0,
               err |-> IF g.err # NilErr THEN g.err
                       ELSE IF g.fh = 0 THEN ClosedWriter ELSE NilErr]]
        /\ pc' = [pc EXCEPT ![p] = IF stop THEN "unlock" ELSE "append"]
        /\ UNCHANGED <<now, timeDiffToUTC, maxAge, subdirs, last, mutex>>

\* fh.Write(p): the buffer reaches the file one write(2) at a time, here one
\* byte each; the call returns after the last byte or at the first error.
WriteAppend(p) ==
    LET l == loc[p]
        w == FileWrite(handles, dir, l.fh, <<Buf(p, BufLen)[l.sent + 1]>>, FALSE)
        ends == w.err # NilErr \/ l.sent + 1 = BufLen
    IN  /\ p \in Writers
        /\ pc[p] = "append"
        /\ dir' = w.dir
        /\ loc' = [loc EXCEPT ![p] = [l EXCEPT !.sent = l.sent + w.n,
                                               !.n = l.sent + w.n,
                                               !.err = w.err]]
        /\ pc' = [pc EXCEPT ![p] = IF ends THEN "unlock" ELSE "append"]
        /\ UNCHANGED <<now, timeDiffToUTC, maxAge, writerVars, handles,
                       subdirs, sweeps, last, mutex>>

\* The body of Close, under the lock
CloseBody(p, closeFails) ==
    LET r == CloseResult(closeFails)
    IN  /\ p = Closer
        /\ pc[p] = "locked"
        /\ outFile' = r.outFile
        /\ handles' = r.handles
        /\ loc' = [loc EXCEPT ![p] = [NoLocals EXCEPT !.err = r.err]]
        /\ pc' = [pc EXCEPT ![p] = "unlock"]
        /\ UNCHANGED <<now, timeDiffToUTC, maxAge, lastTime, filename, dir,
                       subdirs, sweeps, last, mutex>>

\* defer tw.mutex.Unlock()
Unlock(p) ==
    /\ pc[p] = "unlock"
    /\ mutex' = 0
    /\ pc' = [pc EXCEPT ![p] = "done"]
    /\ UNCHANGED <<now, timeDiffToUTC, maxAge, writerVars, handles, dir,
                   subdirs, sweeps, last, loc>>

ConcInit == InitWith({0}, {{OldDir}}, Procs)

ConcNext ==
    \/ \E p \in Procs : Lock(p)
    \/ \E p \in Procs, cf \in BOOLEAN, of \in BOOLEAN : WriteGet(p, cf, of)
    \/ \E p \in Procs : WriteAppend(p)
    \/ \E p \in Procs, cf \in BOOLEAN : CloseBody(p, cf)
    \/ \E p \in Procs : Unlock(p)
    \/ Tick

ConcSpec == ConcInit /\ [][ConcNext]_vars

\* The concurrent callers together with the sweeps their rotations launch,
\* each sweep a goroutine of its own that runs whenever it is scheduled.
\* Two goroutines call Write once each.
DetachProcs == {1, 2}

DetachInit == InitWith({1}, {{OldDir}}, DetachProcs)

DetachNext ==
    \/ \E p \in DetachProcs : Lock(p)
    \/ \E p \in DetachProcs, cf \in BOOLEAN, of \in BOOLEAN : WriteGet(p, cf, of)
    \/ \E p \in DetachProcs : WriteAppend(p)
    \/ \E p \in DetachProcs : Unlock(p)
    \/ Tick
    \/ \E i \in DOMAIN sweeps, f \in BOOLEAN : SweepList(i, f)
    \/ \E i \in DOMAIN sweeps : SweepSelect(i)
    \/ \E i \in DOMAIN sweeps, f \in BOOLEAN : SweepRemove(i, f)

DetachSpec == DetachInit /\ [][DetachNext]_vars

(***************************************************************************)
(* Properties of the writer, checked under Spec                            *)
(***************************************************************************)
Current == BucketStart(now, timeDiffToUTC)
CurrentName == LogName(Current, timeDiffToUTC)

\* C1 (as claimed): a Write that directly follows a Close that returned no
\* error returns the closed-writer error, reports 0 bytes and opens no file,
\* whatever the clock reads and also when no Write came before the Close.
C1_WriteAfterCloseIsRefused ==
    [][\A cf \in BOOLEAN, of \in BOOLEAN, wf \in BOOLEAN :
          (last.op = "Close" /\ last.err = NilErr /\ Write(cf, of, wf))
              => /\ last'.err = ClosedWriter
                 /\ last'.n = 0
                 /\ handles' = handles]_vars

\* C3: when the previous call was a successful Write into bucket B1 and the
\* clock has reached a bucket B2 at least one period later, a Write whose
\* system calls succeed returns no error, and a Write that returns no error
\* has closed the B1 file, opened (created) the file named Format(B2) + ext,
\* recorded handle, filename and B2 together, and appended its bytes to the
\* new file and not to the old one.
C3_RotationCorrect ==
    [][\A cf \in BOOLEAN, of \in BOOLEAN, wf \in BOOLEAN :
          ( /\ last.op = "Write" /\ last.err = NilErr
            /\ Current - lastTime >= period
            /\ Write(cf, of, wf) )
              => /\ (~cf /\ ~of /\ ~wf /\ CurrentName \notin subdirs)
                        => last'.err = NilErr
                 /\ last'.err = NilErr =>
                      /\ handles[outFile].open
                      /\ ~handles'[outFile].open
                      /\ Len(handles') = Len(handles) + 1
                      /\ outFile' = Len(handles')
                      /\ handles'[outFile'] = [name |-> CurrentName, open |-> TRUE]
                      /\ filename' = CurrentName
                      /\ lastTime' = Current
                      /\ last'.fh = outFile'
                      /\ last'.n = 1
                      /\ CurrentName \in DOMAIN dir'
                      /\ dir'[CurrentName] =
                            (IF CurrentName \in DOMAIN dir
                             THEN dir[CurrentName] ELSE <<>>) \o Buf(0, 1)
                      /\ \A f \in DOMAIN dir \ {CurrentName} : dir'[f] = dir[f]
                      /\ filename # CurrentName]_vars

C3_Witness ==
    /\ last.op = "Write" /\ last.path = "rotated" /\ last.err = NilErr
    /\ Len(handles) = 2
    /\ ~handles[1].open /\ handles[2].open
    /\ outFile = 2
    /\ handles[1].name \in DOMAIN dir /\ dir[handles[1].name] # <<>>
    /\ dir[filename] # <<>>

\* C4: a Write at a time of the bucket recorded in lastTime (current -
\* lastTime < period) returns the handle the writer holds and opens no file,
\* closes no file, changes neither handle, filename nor lastTime, and launches
\* no sweep.
C4_BucketStable ==
    [][\A cf \in BOOLEAN, of \in BOOLEAN, wf \in BOOLEAN :
          (Current - lastTime < period /\ Write(cf, of, wf))
              => /\ last'.fh = outFile
                 /\ outFile' = outFile
                 /\ handles' = handles
                 /\ filename' = filename
                 /\ lastTime' = lastTime
                 /\ DOMAIN dir' = DOMAIN dir
                 /\ sweeps' = sweeps]_vars

C4_Witness ==
    /\ last.op = "Write" /\ last.path = "hot" /\ last.err = NilErr
    /\ outFile # 0 /\ last.fh = outFile
    /\ Len(dir[filename]) = 2

\* C5 (as claimed): after a Write whose rotation failed at the open, the
\* writer holds no handle, and the next Write for which the open can succeed
\* opens the file of the current bucket and succeeds, whether or not a
\* previous bucket's handle had been open.
C5_RetryAfterFailedOpen ==
    [][\A cf \in BOOLEAN :
          ( /\ last.op = "Write" /\ last.err = OpenError
            /\ CurrentName \notin subdirs
            /\ Write(cf, FALSE, FALSE) )
              => /\ outFile = 0
                 /\ last'.err = NilErr
                 /\ last'.n = 1
                 /\ handles'[outFile'] = [name |-> CurrentName, open |-> TRUE]]_vars

\* C6: when the open of the new bucket file fails during rotation, the Write
\* returns the file-open error with 0 bytes written, lastTime and filename keep
\* their values, no file appears and no sweep is launched.
C6_FailedOpenRecordsNothing ==
    [][\A cf \in BOOLEAN, of \in BOOLEAN, wf \in BOOLEAN :
          ( /\ Current - lastTime >= period
            /\ filename # CurrentName
            /\ outFile # 0 => (handles[outFile].open /\ ~cf)
            /\ of \/ CurrentName \in subdirs
            /\ Write(cf, of, wf) )
              => /\ last'.err = OpenError
                 /\ last'.n = 0
                 /\ lastTime' = lastTime
                 /\ filename' = filename
                 /\ DOMAIN dir' = DOMAIN dir
                 /\ Len(handles') = Len(handles)
                 /\ sweeps' = sweeps]_vars

C6_Witness ==
    /\ last.op = "Write" /\ last.path = "openerr" /\ last.err = OpenError
    /\ lastTime # 0 /\ Current - lastTime >= period

\* C7: a Close that returns no error leaves the handle nil; a Close of a
\* writer whose handle is nil returns no error, closes no file and leaves the
\* handle nil; no Close changes filename or lastTime.
C7_CloseIdempotent ==
    [][\A cf \in BOOLEAN :
          Close(cf)
              => /\ last'.err = NilErr => outFile' = 0
                 /\ outFile = 0 => /\ last'.err = NilErr
                                   /\ handles' = handles
                                   /\ outFile' = 0
                 /\ filename' = filename
                 /\ lastTime' = lastTime]_vars

C7_Witness ==
    /\ last.op = "Close" /\ last.path = "nil" /\ last.err = NilErr
    /\ outFile = 0
    /\ Len(handles) > 0 /\ \A h \in DOMAIN handles : ~handles[h].open

\* C9 (as claimed): the name the writer produced for the bucket start it
\* recorded parses, by timeFromName, to an instant whose bucket is that
\* bucket start, for every captured offset.
C9_NameRoundTrip ==
    filename # <<>> =>
        /\ timeFromName(filename).ok
        /\ BucketStart(timeFromName(filename).t, timeDiffToUTC) = lastTime

(***************************************************************************)
(* Properties of concurrent callers, checked under ConcSpec                *)
(***************************************************************************)
InCall(p) == pc[p] \in {"locked", "append", "unlock"}

RECURSIVE TotalBytes(_, _)
TotalBytes(d, names) ==
    IF names = {} THEN 0
    ELSE LET f == CHOOSE f \in names : TRUE
         IN  Len(d[f]) + TotalBytes(d, names \ {f})

\* The contents c are whole buffers of the writers, one after the other.
WholeBuffers(c) ==
    /\ Len(c) % BufLen = 0
    /\ \A j \in 0..(Len(c) \div BufLen - 1) :
          \E w \in Writers :
              SubSeq(c, j * BufLen + 1, (j + 1) * BufLen) = Buf(w, BufLen)

\* C2: the rotation decision and the append of a Write are one critical
\* section under the writer's lock: at most one caller is inside Write or
\* Close at a time, the handle a Write obtained is the writer's handle and
\* keeps its state until the append is over, and when all NumWriters writes
\* of BufLen bytes have succeeded the files hold exactly NumWriters * BufLen
\* bytes, each file a concatenation of whole buffers.
C2_WritesAreSerialized ==
    /\ \A p \in Procs, q \in Procs : (InCall(p) /\ InCall(q)) => p = q
    /\ \A p \in Procs : InCall(p) => mutex = p
    /\ \A p \in Writers :
          pc[p] = "append" => /\ outFile = loc[p].fh
                              /\ handles[loc[p].fh].open = loc[p].wasOpen
    /\ (\A p \in Writers : /\ pc[p] = "done"
                           /\ loc[p].err = NilErr
                           /\ loc[p].n = BufLen)
          => /\ TotalBytes(dir, DOMAIN dir) = NumWriters * BufLen
             /\ \A f \in DOMAIN dir : WholeBuffers(dir[f])

C2_Witness ==
    /\ \A p \in Procs : pc[p] = "done"
    /\ \A p \in Writers : loc[p].err = NilErr /\ loc[p].n = BufLen
    /\ loc[Closer].err = NilErr
    /\ Len(handles) = 2
    /\ TotalBytes(dir, DOMAIN dir) = NumWriters * BufLen

(***************************************************************************)
(* Properties of the sweep, checked under SweepSpec                        *)
(***************************************************************************)
Range(q) == {q[j] : j \in DOMAIN q}

\* C8 (as claimed): with retention on, of the files the writer named for the
\* buckets 0, maxAge - 1, maxAge and maxAge + 5 days before the current one, a
\* sweep that reads the clock at an instant of the current bucket selects for
\* deletion exactly those maxAge or more days back, for every captured offset.
\* The first instant of the bucket, at which the file maxAge days back is not
\* yet strictly before the cutoff, is left out of the statement.
C8_RetentionCutoff ==
    [][\A i \in DOMAIN sweeps :
          (maxAge > 0 /\ now > Current /\ SweepSelect(i))
              => \A k \in {0, maxAge - 1, maxAge, maxAge + 5} :
                    LET f == LogName(Current - k * period, timeDiffToUTC)
                    IN  f \in Range(sweeps[i].files)
                            => (f \in Range(sweeps'[i].remove) <=> k >= maxAge)]_vars

\* A directory entry that is no log file of the writer: a subdirectory, a
\* name without the extension, or a prefix the pattern does not parse.
NotLogFile(n) ==
    \/ n \in subdirs
    \/ ~HasSuffix(n, ext)
    \/ ~Parse(SubSeq(n, 1, Len(n) - Len(ext))).ok

\* C10: no step of any sweep removes a directory entry that is a
\* subdirectory, or whose name does not end with the extension, or whose
\* prefix does not parse under the pattern, whatever its age.
C10_NonLogFilesKept ==
    [][\A n \in DirEntries :
          NotLogFile(n) => /\ n \in DOMAIN dir => n \in DOMAIN dir'
                           /\ n \in subdirs => n \in subdirs']_vars

C10_Witness ==
    /\ maxAge > 0
    /\ \E i \in DOMAIN sweeps : sweeps[i].pc = "done" /\ sweeps[i].files # <<>>
    /\ (<<DayTok(StartDay - 7)>> \o ext) \notin DOMAIN dir
    /\ (<<DayTok(StartDay - 7), StrTok(".txt")>>) \in DOMAIN dir
    /\ OtherFiles \subseteq DOMAIN dir
    /\ OldDir \in subdirs

\* C11: with maxAge zero or negative no step of any sweep removes a directory
\* entry, and no sweep ever holds a file to remove.
C11_RetentionDisabled ==
    [][maxAge <= 0 =>
          /\ DOMAIN dir \subseteq DOMAIN dir'
          /\ subdirs' = subdirs
          /\ \A i \in DOMAIN sweeps' : sweeps'[i].remove = <<>>]_vars

C11_Witness ==
    /\ maxAge < 0
    /\ Len(sweeps) = 2
    /\ \A i \in DOMAIN sweeps : sweeps[i].pc = "done" /\ Len(sweeps[i].files) >= 4
    /\ InitFiles \subseteq DOMAIN dir

\* C12 (as claimed): no sweep removes the file of the handle the writer holds
\* open, for every horizon, offset and instant of the rotating Write.
C12_OpenFileKept ==
    (outFile # 0 /\ handles[outFile].open)
        => handles[outFile].name \in DOMAIN dir

\* C13 (as claimed): a Write whose rotation fails to close the previous handle
\* returns the close error and 0 bytes, opens no file, leaves filename and
\* lastTime as they were, and leaves the writer with a nil handle.
C13_FailedCloseClearsHandle ==
    [][\A cf \in BOOLEAN, of \in BOOLEAN, wf \in BOOLEAN :
          (Write(cf, of, wf) /\ last'.path = "closeerr")
              => /\ last'.n = 0
                 /\ last'.err \in {"close failed", "file already closed"}
                 /\ Len(handles') = Len(handles)
                 /\ DOMAIN dir' = DOMAIN dir
                 /\ filename' = filename
                 /\ lastTime' = lastTime
                 /\ outFile' = 0]_vars

\* C14: in every reachable state a non-nil handle refers to the file named by
\* filename, filename is the local-time name of lastTime plus the extension,
\* and lastTime is the start of the bucket of that name.
C14_HandleNameBucket ==
    outFile # 0
        => /\ outFile \in DOMAIN handles
           /\ handles[outFile].name = filename
           /\ filename = LogName(lastTime, timeDiffToUTC)
           /\ BucketStart(lastTime, timeDiffToUTC) = lastTime

C14_Witness ==
    /\ last.op = "Write"
    /\ last.path = "openerr"
    /\ outFile # 0
    /\ lastTime < Current

\* C15: in every reachable state at most one file is open and it is the one
\* the handle refers to: every other file ever opened has been closed.
C15_AtMostOneOpenFile ==
    /\ \A h \in DOMAIN handles : handles[h].open => h = outFile
    /\ Cardinality({h \in DOMAIN handles : handles[h].open}) <= 1

C15_Witness ==
    /\ Len(handles) = 2
    /\ ~handles[1].open
    /\ handles[2].open
    /\ last.op = "Write"
    /\ last.path = "hot"
    /\ last.err = NilErr

\* The os.Remove that SweepRemove(i, removeFails) issues returns an error.
RemoveFailed(i, removeFails) ==
    removeFails \/ Head(sweeps[i].remove) \notin DirEntries

SweepStep(i) == sweeps'[i] # sweeps[i]

\* The statement of Write that caller p executes next.
CallStep(p) ==
    \/ \E cf \in BOOLEAN, of \in BOOLEAN : WriteGet(p, cf, of)
    \/ WriteAppend(p)
    \/ Unlock(p)

\* C17: getFileHandler launches one sweep when it has opened a new file and
\* none on the hot path, on a reused name, on a failed close or on a failed
\* open; a caller that holds the lock can always take its next step, whatever
\* the sweeps are doing; no step of a sweep touches the lock, the writer's
\* fields or a caller's result; and the append succeeds exactly when the
\* handle is open, whether or not a sweep has run, failed or removed the file.
C17_SweepDetached ==
    [][/\ \A p \in DetachProcs, cf \in BOOLEAN, of \in BOOLEAN :
             WriteGet(p, cf, of)
                 => IF getFileHandler(cf, of).path = "rotated"
                    THEN /\ Len(handles') = Len(handles) + 1
                         /\ sweeps' = Append(sweeps, NewSweep)
                    ELSE /\ Len(handles') = Len(handles)
                         /\ sweeps' = sweeps
       /\ Len(sweeps') = Len(sweeps) + (Len(handles') - Len(handles))
       /\ \A p \in DetachProcs :
             pc[p] \in {"locked", "append", "unlock"} => ENABLED CallStep(p)
       /\ \A i \in DOMAIN sweeps :
             SweepStep(i) => UNCHANGED <<mutex, pc, loc, writerVars, handles>>
       /\ \A p \in DetachProcs :
             WriteAppend(p)
                 => /\ loc'[p].err = NilErr <=> handles[loc[p].fh].open
                    /\ loc'[p].n = loc[p].sent
                                   + (IF handles[loc[p].fh].open THEN 1 ELSE 0)
      ]_vars

C17_Witness ==
    /\ mutex = 0
    /\ \E p \in DetachProcs :
          /\ pc[p] = "done"
          /\ loc[p].err = NilErr
          /\ loc[p].n = BufLen
    /\ Len(sweeps) = 1
    /\ sweeps[1].pc = "start"

\* The 24-hour slot of local time that instant t lies in.
Slot(t, off) == (t + off) \div period

\* What C18 says of current, computed at instant t, against every instant of
\* the instants ts.
BucketLaw(current, t, off, ts) ==
    /\ (current + off) % period = 0
    /\ 0 <= t - current
    /\ t - current < period
    /\ \A u \in ts : BucketStart(u, off) = current <=> Slot(u, off) = Slot(t, off)

\* C18 (as claimed): for every now >= 0 and every offset shorter than the
\* period, current + offset is a multiple of the period, 0 <= now - current <
\* period, and two instants have the same current exactly when they lie in
\* the same offset-aligned slot.
C18_BucketStartAnyInstant ==
    last.op = "current"
        => BucketLaw(last.n, now, timeDiffToUTC, 0..MaxNow)

\* C18 (amended): the same, for the instants with now + offset >= 0.
C18_BucketStartFromEpoch ==
    (last.op = "current" /\ now + timeDiffToUTC >= 0)
        => BucketLaw(last.n, now, timeDiffToUTC,
                     {u \in 0..MaxNow : u + timeDiffToUTC >= 0})

C18_Witness ==
    /\ last.op = "current"
    /\ timeDiffToUTC < 0
    /\ now + timeDiffToUTC >= period
    /\ last.n < now
    /\ last.n > 0

\* C19: lastTime never decreases and is always 0 or an offset-aligned bucket
\* start; a Write made while the clock shows an earlier bucket than lastTime
\* does not rotate, and it writes through the handle of the file named after
\* lastTime, the latest bucket ever opened.
C19_LastTimeMonotonic ==
    [][/\ lastTime' >= lastTime
       /\ (lastTime' = 0) \/ ((lastTime' + timeDiffToUTC) % period = 0)
       /\ \A cf \in BOOLEAN, of \in BOOLEAN, wf \in BOOLEAN :
             (Current < lastTime /\ Write(cf, of, wf))
                 => /\ last'.path = "hot"
                    /\ last'.fh = outFile
                    /\ UNCHANGED <<writerVars, handles, sweeps>>
                    /\ DOMAIN dir' = DOMAIN dir
                    /\ outFile # 0
                          => handles[outFile].name
                                 = LogName(lastTime, timeDiffToUTC)]_vars

C19_Witness ==
    /\ last.op = "Write"
    /\ last.path = "hot"
    /\ last.err = NilErr
    /\ Current < lastTime
    /\ Len(dir[filename]) = 2
====
